---- MODULE Spec2Model ----
(***************************************************************************)
(* SchedulerService (backend/app/services/scheduler_service.py): the       *)
(* in-process recurring-task scheduler.  One asyncio event loop runs the   *)
(* scheduler loop coroutine, the callers of the control API and the        *)
(* handlers; a coroutine runs atomically between two suspension points, so *)
(* every action below is one such atomic stretch of code.                  *)
(*                                                                         *)
(* Time is in seconds and is observed at the granularity of the loop       *)
(* period.  None (Python's None) is -1; the strings "None" stand for None  *)
(* in the fields that hold results and error messages.                     *)
(***************************************************************************)
EXTENDS Integers, Sequences, FiniteSets, TLC

VARIABLES
    now,            \* datetime.utcnow(), seconds
    tasks,          \* self.tasks: task id -> task dict
    order,          \* insertion order of the keys of self.tasks
    task_handlers,  \* self.task_handlers: task id -> handler
    is_running,     \* self.is_running
    loop,           \* self.scheduler_task: the _scheduler_loop coroutine
    cancelReq,      \* scheduler_task.cancel() called, CancelledError not raised yet
    phase,          \* the application: new, running, stopping, stopped
    forcing,        \* task id -> force_run_task calls awaiting the handler
    last,           \* the control call of the last step, if it was one: its
                    \* name, its id and what it returned
    calls,          \* control calls made so far
    cancelledAt,    \* history: task id -> its status when cancel_task last
                    \* returned True for it, until it is resumed or rescheduled
    failedRun       \* history: ids whose handler failed and that were not
                    \* rescheduled since

vars == <<now, tasks, order, task_handlers, is_running, loop, cancelReq,
          phase, forcing, last, calls, cancelledAt, failedRun>>

hist == <<cancelledAt, failedRun>>

----------------------------------------------------------------------------
(* Bounds of the model *)

\* the clock advances MaxSteps times
MaxSteps == 1
\* the callers make MaxCalls control calls after initialize
MaxCalls == 2

----------------------------------------------------------------------------
(* Constants of the program *)

None == -1
Sleep == 30
Backoff == 60
ResumeDelay == 300

\* the clock is read at the granularity of the loop period
Step == Sleep

PENDING == "pending"
RUNNING == "running"
COMPLETED == "completed"
FAILED == "failed"
CANCELLED == "cancelled"
TaskStatus == {PENDING, RUNNING, COMPLETED, FAILED, CANCELLED}

LOW == 1
NORMAL == 2
HIGH == 3
URGENT == 4
TaskPriority == {LOW, NORMAL, HIGH, URGENT}

\* _schedule_default_tasks: id, handler, initial delay, interval, priority
DefaultTasks ==
    << [id |-> "cleanup_old_data", handler |-> "_cleanup_old_data",
        delay |-> 3600, interval |-> 86400, priority |-> LOW],
       [id |-> "retrain_models", handler |-> "_retrain_prediction_models",
        delay |-> 7200, interval |-> 604800, priority |-> NORMAL],
       [id |-> "check_sensor_status", handler |-> "_check_sensor_status",
        delay |-> 300, interval |-> 300, priority |-> HIGH],
       [id |-> "cleanup_notifications", handler |-> "_cleanup_notifications",
        delay |-> 21600, interval |-> 86400, priority |-> LOW] >>

----------------------------------------------------------------------------
(* Inputs of the control API *)

\* ids the callers use: one of their own and one of the default tasks
CallIds == {"a", "check_sensor_status"}
\* an id that is never scheduled
UnknownId == "zz"
StartTimes == {0, Step}
Intervals == {None, 0, Step}
\* what schedule_task is given besides the id: a one-shot task, with a
\* start_time that is past or still to come, a recurring task, a recurring
\* task with a bound, and the zeros;
\* priority None: the argument is omitted
ScheduleArgs ==
    { [handler |-> "H1", start_time |-> 0 - Step, interval_seconds |-> None,
       max_runs |-> None, priority |-> None],
      [handler |-> "H2", start_time |-> Step, interval_seconds |-> None,
       max_runs |-> 1, priority |-> NORMAL],
      [handler |-> "H1", start_time |-> 0, interval_seconds |-> Step,
       max_runs |-> None, priority |-> URGENT],
      [handler |-> "H2", start_time |-> 0, interval_seconds |-> Step,
       max_runs |-> 2, priority |-> NORMAL],
      [handler |-> "H2", start_time |-> 0, interval_seconds |-> 0,
       max_runs |-> 0, priority |-> LOW] }
\* a task with the interval 0 and no max_runs
ZeroIntervalArgs ==
    [handler |-> "H1", start_time |-> 0, interval_seconds |-> 0,
     max_runs |-> None, priority |-> HIGH]
Results == {"r"}
Errors == {"e"}

\* what a control call returns; NoCall while it has not returned
True == "True"
False == "False"
NoCall == "-"
\* the observation of a control call, and of a step that is none; val is
\* <<v>> when the call was a query that returned the value v
Called(op, id, r) == [op |-> op, id |-> id, ret |-> r, val |-> <<>>]
NoControlCall == Called("-", "-", NoCall)

\* Python truthiness of an Optional[int]
Truthy(x) == x # None /\ x # 0

Ids == DOMAIN tasks

----------------------------------------------------------------------------
(* The Task Executor: _execute_task *)

\* lines 182-183
ExecStart(t, tm) == [t EXCEPT !.status = RUNNING, !.last_run = tm]

\* ExecSuccess with a task that has no interval left pending after its run
ExecSuccessOneShotPending(t, r, tm) ==
    LET t1 == [t EXCEPT !.last_result = r, !.run_count = @ + 1]
    IN  IF Truthy(t1.max_runs) /\ t1.run_count >= t1.max_runs
        THEN [t1 EXCEPT !.status = COMPLETED]
        ELSE IF Truthy(t1.interval_seconds)
        THEN [t1 EXCEPT !.next_run = tm + t1.interval_seconds,
                        !.status = PENDING]
        ELSE [t1 EXCEPT !.status = PENDING]

\* ExecSuccess with max_runs compared by > in place of >=
ExecSuccessOneRunMore(t, r, tm) ==
    LET t1 == [t EXCEPT !.last_result = r, !.run_count = @ + 1]
    IN  IF Truthy(t1.max_runs) /\ t1.run_count > t1.max_runs
        THEN [t1 EXCEPT !.status = COMPLETED]
        ELSE IF Truthy(t1.interval_seconds)
        THEN [t1 EXCEPT !.next_run = tm + t1.interval_seconds,
                        !.status = PENDING]
        ELSE [t1 EXCEPT !.status = COMPLETED]

\* ExecSuccess with the next run one interval after the run that was scheduled
ExecSuccessFromSchedule(t, r, tm) ==
    LET t1 == [t EXCEPT !.last_result = r, !.run_count = @ + 1]
    IN  IF Truthy(t1.max_runs) /\ t1.run_count >= t1.max_runs
        THEN [t1 EXCEPT !.status = COMPLETED]
        ELSE IF Truthy(t1.interval_seconds)
        THEN [t1 EXCEPT !.next_run = t.next_run + t1.interval_seconds,
                        !.status = PENDING]
        ELSE [t1 EXCEPT !.status = COMPLETED]

\* ExecSuccess with the next run one interval after the start of the run
ExecSuccessFromStart(t, r, tm) ==
    LET t1 == [t EXCEPT !.last_result = r, !.run_count = @ + 1]
    IN  IF Truthy(t1.max_runs) /\ t1.run_count >= t1.max_runs
        THEN [t1 EXCEPT !.status = COMPLETED]
        ELSE IF Truthy(t1.interval_seconds)
        THEN [t1 EXCEPT !.next_run = t.last_run + t1.interval_seconds,
                        !.status = PENDING]
        ELSE [t1 EXCEPT !.status = COMPLETED]

\* lines 188-202: the handler returned r at time tm
ExecSuccess(t, r, tm) ==
    LET t1 == [t EXCEPT !.last_result = r, !.run_count = @ + 1]
    IN  IF Truthy(t1.max_runs) /\ t1.run_count >= t1.max_runs
        THEN [t1 EXCEPT !.status = COMPLETED]
        ELSE IF Truthy(t1.interval_seconds)
        THEN [t1 EXCEPT !.next_run = tm + t1.interval_seconds,
                        !.status = PENDING]
        ELSE [t1 EXCEPT !.status = COMPLETED]

\* ExecCancelled with the cancelled run counted
ExecCancelledCounted(t) ==
    [t EXCEPT !.status = CANCELLED, !.run_count = @ + 1]

\* lines 204-206: asyncio.CancelledError reached the executor
ExecCancelled(t) == [t EXCEPT !.status = CANCELLED]

\* ExecFailed with a recurring task left pending for its next run
ExecFailedRetry(t, e) ==
    [t EXCEPT !.status = IF Truthy(t.interval_seconds) THEN PENDING ELSE FAILED,
              !.last_error = e]

\* ExecFailed with the failed run counted
ExecFailedCounted(t, e) ==
    [t EXCEPT !.status = FAILED, !.last_error = e, !.run_count = @ + 1]

\* lines 207-210: the handler raised e
ExecFailed(t, e) == [t EXCEPT !.status = FAILED, !.last_error = e]

\* how an awaited handler ends
Outcomes ==
    [kind : {"ok"}, val : Results] \cup [kind : {"raise"}, val : Errors]

ExecEnd(t, o, tm) ==
    CASE o.kind = "ok" -> ExecSuccess(t, o.val, tm)
      [] o.kind = "raise" -> ExecFailed(t, o.val)
      [] o.kind = "cancelled" -> ExecCancelled(t)

----------------------------------------------------------------------------
(* The Scheduler Loop: _scheduler_loop *)

\* IsDue without the test of the status
IsDueAnyStatus(t, ct) == t.next_run # None /\ t.next_run <= ct

\* line 69: the condition evaluates to true
IsDue(t, ct) == t.status = PENDING /\ t.next_run # None /\ t.next_run <= ct

\* line 69: the condition raises TypeError: the task is PENDING and its
\* next_run is None, which has no order with current_time
Faults(t) == t.status = PENDING /\ t.next_run = None

\* FirstDue with the task of the highest priority taken first
FirstDueByPriority(tk, todo, ct) ==
    LET due == {k \in 1..Len(todo) :
                   IsDue(tk[todo[k]], ct) \/ Faults(tk[todo[k]])}
    IN  IF due = {} THEN 0
        ELSE CHOOSE k \in due :
                \A j \in due :
                   \/ tk[todo[k]].priority > tk[todo[j]].priority
                   \/ tk[todo[k]].priority = tk[todo[j]].priority /\ k <= j

\* lines 68-70: the index in todo of the first task at which the scan stops,
\* to dispatch it or with the error of its condition, or 0
FirstDue(tk, todo, ct) ==
    LET due == {k \in 1..Len(todo) :
                   IsDue(tk[todo[k]], ct) \/ Faults(tk[todo[k]])}
    IN  IF due = {} THEN 0 ELSE CHOOSE k \in due : \A j \in due : k <= j

\* the coroutine at a place of its code, before its first tick; current_time
\* is the local variable of line 65, which keeps its value while the loop sleeps
LoopAt(pc) == [pc |-> pc, todo |-> <<>>, cur |-> "", current_time |-> None,
               wake_at |-> None]

\* LoopScan with the error of line 69 ending the loop, as it would without
\* the clause of lines 77-79
LoopScanFaultEnds(tk, todo, ct) ==
    LET k == FirstDue(tk, todo, ct)
    IN  IF k = 0
        THEN [tasks |-> tk,
              loop |-> [LoopAt("sleep") EXCEPT !.current_time = ct,
                                               !.wake_at = now + Sleep]]
        ELSE IF Faults(tk[todo[k]])
        THEN [tasks |-> tk, loop |-> LoopAt("done")]
        ELSE [tasks |-> [tk EXCEPT ![todo[k]] = ExecStart(@, now)],
              loop |-> [pc |-> "exec", todo |-> SubSeq(todo, k + 1, Len(todo)),
                        cur |-> todo[k], current_time |-> ct, wake_at |-> None]]

\* lines 68-73, 77-79: the scan goes on over todo, the rest of the list of
\* line 68, with the tick's current_time ct, until it awaits a handler, goes
\* to sleep, or the condition of line 69 raises and it sleeps the longer time
LoopScan(tk, todo, ct) ==
    LET k == FirstDue(tk, todo, ct)
    IN  IF k = 0
        THEN [tasks |-> tk,
              loop |-> [LoopAt("sleep") EXCEPT !.current_time = ct,
                                               !.wake_at = now + Sleep]]
        ELSE IF Faults(tk[todo[k]])
        THEN [tasks |-> tk,
              loop |-> [LoopAt("backoff") EXCEPT !.current_time = ct,
                                                 !.wake_at = now + Backoff]]
        ELSE [tasks |-> [tk EXCEPT ![todo[k]] = ExecStart(@, now)],
              loop |-> [pc |-> "exec", todo |-> SubSeq(todo, k + 1, Len(todo)),
                        cur |-> todo[k], current_time |-> ct, wake_at |-> None]]

\* LoopTick with a loop that does not test is_running
LoopTickIgnoresStop ==
    /\ ~cancelReq
    /\ \/ loop.pc = "start"
       \/ loop.pc \in {"sleep", "backoff"} /\ now >= loop.wake_at
    /\ LET s == LoopScan(tasks, order, now)
       IN  tasks' = s.tasks /\ loop' = s.loop
    /\ last' = NoControlCall
    /\ UNCHANGED <<now, order, task_handlers, is_running, cancelReq, phase,
                   forcing, calls, hist>>

\* lines 63-73: the loop starts a tick: it was created (line 37) and runs for
\* the first time, or its sleep (line 73 or 79) is over
LoopTick ==
    /\ ~cancelReq
    /\ \/ loop.pc = "start"
       \/ loop.pc \in {"sleep", "backoff"} /\ now >= loop.wake_at
    /\ IF is_running
       THEN LET s == LoopScan(tasks, order, now)
            IN  tasks' = s.tasks /\ loop' = s.loop
       ELSE tasks' = tasks /\ loop' = LoopAt("done")
    /\ last' = NoControlCall
    /\ UNCHANGED <<now, order, task_handlers, is_running, cancelReq, phase,
                   forcing, calls, hist>>

\* LoopExecEnd with a failure of the handler leaving the scan, as an exception
\* that reached line 77 would
LoopExecEndPropagating(o) ==
    /\ loop.pc = "exec"
    /\ o.kind = "cancelled" => cancelReq
    /\ LET tk == [tasks EXCEPT ![loop.cur] = ExecEnd(@, o, now)]
           s == IF o.kind = "raise"
                THEN [tasks |-> tk,
                      loop |-> [LoopAt("backoff") EXCEPT
                                   !.current_time = loop.current_time,
                                   !.wake_at = now + Backoff]]
                ELSE LoopScan(tk, loop.todo, loop.current_time)
       IN  tasks' = s.tasks /\ loop' = s.loop
    /\ cancelReq' = FALSE
    /\ failedRun' = IF o.kind = "raise" THEN failedRun \cup {loop.cur}
                    ELSE failedRun
    /\ last' = NoControlCall
    /\ UNCHANGED <<now, order, task_handlers, is_running, phase, forcing,
                   calls, cancelledAt>>

\* LoopExecEnd with the scan going on over the registry as it is now, after
\* the task that ran, not over the list of line 68
LoopExecEndLiveList(o) ==
    /\ loop.pc = "exec"
    /\ o.kind = "cancelled" => cancelReq
    /\ LET tk == [tasks EXCEPT ![loop.cur] = ExecEnd(@, o, now)]
           at == CHOOSE k \in 1..Len(order) : order[k] = loop.cur
           s == LoopScan(tk, SubSeq(order, at + 1, Len(order)),
                         loop.current_time)
       IN  tasks' = s.tasks /\ loop' = s.loop
    /\ cancelReq' = FALSE
    /\ failedRun' = IF o.kind = "raise" THEN failedRun \cup {loop.cur}
                    ELSE failedRun
    /\ last' = NoControlCall
    /\ UNCHANGED <<now, order, task_handlers, is_running, phase, forcing,
                   calls, cancelledAt>>

\* lines 186-210, then 68-73: the handler the loop awaits ends with outcome o,
\* the executor writes the task's new state, and the scan goes on.  A pending
\* cancellation is raised inside the handler, which lets it through
\* ("cancelled") or catches it and ends in its own way.
LoopExecEnd(o) ==
    /\ loop.pc = "exec"
    /\ o.kind = "cancelled" => cancelReq
    /\ LET tk == [tasks EXCEPT ![loop.cur] = ExecEnd(@, o, now)]
           s == LoopScan(tk, loop.todo, loop.current_time)
       IN  tasks' = s.tasks /\ loop' = s.loop
    /\ cancelReq' = FALSE
    /\ failedRun' = IF o.kind = "raise" THEN failedRun \cup {loop.cur}
                    ELSE failedRun
    /\ last' = NoControlCall
    /\ UNCHANGED <<now, order, task_handlers, is_running, phase, forcing,
                   calls, cancelledAt>>

\* lines 75-76 (and the sleep of line 79, outside the try): CancelledError is
\* raised at the sleep, or before the coroutine ran at all
LoopCancelled ==
    /\ cancelReq
    /\ loop.pc \in {"start", "sleep", "backoff"}
    /\ loop' = LoopAt("done")
    /\ cancelReq' = FALSE
    /\ last' = NoControlCall
    /\ UNCHANGED <<now, tasks, order, task_handlers, is_running, phase,
                   forcing, calls, hist>>

----------------------------------------------------------------------------
(* The Task Registry: the control API *)

\* PriorityOrDefault with the lowest priority as the default
PriorityOrLow(pr) == IF pr = None THEN LOW ELSE pr

\* line 88: the default of the priority parameter
PriorityOrDefault(pr) == IF pr = None THEN NORMAL ELSE pr

\* lines 96-108
NewTask(id, h, st, iv, mr, pr) ==
    [id |-> id, handler |-> h, next_run |-> st, interval_seconds |-> iv,
     max_runs |-> mr, run_count |-> 0, priority |-> PriorityOrDefault(pr),
     status |-> PENDING, created_at |-> now, last_run |-> None,
     last_result |-> "None", last_error |-> "None"]

\* a dict with key id set to v
Put(d, id, v) == [k \in DOMAIN d \cup {id} |-> IF k = id THEN v ELSE d[k]]
\* a dict without key id
Del(d, id) == [k \in DOMAIN d \ {id} |-> d[k]]
\* the keys of a dict, in insertion order, after key id was set
PutOrder(o, id) == IF \E k \in 1..Len(o) : o[k] = id THEN o ELSE Append(o, id)

\* ScheduleTask without the test of line 92: an existing record is replaced
ScheduleTaskOverwrite(reg, id, h, st, iv, mr, pr) ==
    [tasks |-> Put(reg.tasks, id, NewTask(id, h, st, iv, mr, pr)),
     order |-> PutOrder(reg.order, id),
     task_handlers |-> Put(reg.task_handlers, id, h),
     ret |-> True]

\* lines 91-114: the registry after schedule_task, and what the call returns
ScheduleTask(reg, id, h, st, iv, mr, pr) ==
    IF id \in DOMAIN reg.tasks
    THEN [reg EXCEPT !.ret = False]
    ELSE [tasks |-> Put(reg.tasks, id, NewTask(id, h, st, iv, mr, pr)),
          order |-> PutOrder(reg.order, id),
          task_handlers |-> Put(reg.task_handlers, id, h),
          ret |-> True]

Registry == [tasks |-> tasks, order |-> order, task_handlers |-> task_handlers,
             ret |-> NoCall]

SetRegistry(reg) ==
    /\ tasks' = reg.tasks
    /\ order' = reg.order
    /\ task_handlers' = reg.task_handlers

\* one more control call; the application serves its callers once it has
\* initialized the scheduler (main.py, lines 42 and 46)
Call == phase # "new" /\ calls < MaxCalls /\ calls' = calls + 1

Schedule(id, h, st, iv, mr, pr) ==
    /\ Call
    /\ LET reg == ScheduleTask(Registry, id, h, st, iv, mr, pr)
       IN  SetRegistry(reg) /\ last' = Called("schedule", id, reg.ret)
    /\ UNCHANGED <<now, is_running, loop, cancelReq, phase, forcing, hist>>

\* lines 123-134: the tasks after cancel_task on a known id
CancelTask(tk, id) == [tk EXCEPT ![id].status = CANCELLED]

\* Cancel with the record of the task removed from the registry
CancelRemovesRecord(id) ==
    /\ Call
    /\ IF id \notin Ids
       THEN /\ last' = Called("cancel", id, False)
            /\ UNCHANGED <<tasks, task_handlers, cancelledAt>>
       ELSE /\ tasks' = Del(tasks, id)
            /\ task_handlers' = Del(task_handlers, id)
            /\ last' = Called("cancel", id, True)
            /\ cancelledAt' = Put(cancelledAt, id, tasks[id].status)
    /\ UNCHANGED <<now, order, is_running, loop, cancelReq, phase, forcing,
                   failedRun>>

\* lines 122-134
Cancel(id) ==
    /\ Call
    /\ IF id \notin Ids
       THEN /\ last' = Called("cancel", id, False)
            /\ UNCHANGED <<tasks, task_handlers, cancelledAt>>
       ELSE /\ tasks' = CancelTask(tasks, id)
            /\ task_handlers' = Del(task_handlers, id)
            /\ last' = Called("cancel", id, True)
            /\ cancelledAt' = Put(cancelledAt, id, tasks[id].status)
    /\ UNCHANGED <<now, order, is_running, loop, cancelReq, phase, forcing,
                   failedRun>>

\* Pause without the test of the status of line 147
PauseAnyStatus(id) ==
    /\ Call
    /\ IF id \in Ids
       THEN /\ tasks' = [tasks EXCEPT ![id].status = CANCELLED]
            /\ last' = Called("pause", id, True)
       ELSE tasks' = tasks /\ last' = Called("pause", id, False)
    /\ UNCHANGED <<now, order, task_handlers, is_running, loop, cancelReq,
                   phase, forcing, hist>>

\* lines 142-152
Pause(id) ==
    /\ Call
    /\ IF id \in Ids /\ tasks[id].status = PENDING
       THEN /\ tasks' = [tasks EXCEPT ![id].status = CANCELLED]
            /\ last' = Called("pause", id, True)
       ELSE tasks' = tasks /\ last' = Called("pause", id, False)
    /\ UNCHANGED <<now, order, task_handlers, is_running, loop, cancelReq,
                   phase, forcing, hist>>

\* Resume without the test of the status of line 166
ResumeAnyStatus(id, new_start_time) ==
    /\ Call
    /\ IF id \in Ids
       THEN /\ tasks' = [tasks EXCEPT
                           ![id].status = PENDING,
                           ![id].next_run = IF new_start_time # None
                                            THEN new_start_time
                                            ELSE now + ResumeDelay]
            /\ last' = Called("resume", id, True)
            /\ cancelledAt' = Del(cancelledAt, id)
       ELSE /\ tasks' = tasks /\ cancelledAt' = cancelledAt
            /\ last' = Called("resume", id, False)
    /\ UNCHANGED <<now, order, task_handlers, is_running, loop, cancelReq,
                   phase, forcing, failedRun>>

\* lines 160-172; new_start_time None: the default of line 168
Resume(id, new_start_time) ==
    /\ Call
    /\ IF id \in Ids /\ tasks[id].status = CANCELLED
       THEN /\ tasks' = [tasks EXCEPT
                           ![id].status = PENDING,
                           ![id].next_run = IF new_start_time # None
                                            THEN new_start_time
                                            ELSE now + ResumeDelay]
            /\ last' = Called("resume", id, True)
            /\ cancelledAt' = Del(cancelledAt, id)
       ELSE /\ tasks' = tasks /\ cancelledAt' = cancelledAt
            /\ last' = Called("resume", id, False)
    /\ UNCHANGED <<now, order, task_handlers, is_running, loop, cancelReq,
                   phase, forcing, failedRun>>

\* Reschedule with the count of the runs starting again
RescheduleFromZero(id, new_start_time, new_interval) ==
    /\ Call
    /\ IF id \notin Ids
       THEN /\ tasks' = tasks /\ UNCHANGED hist
            /\ last' = Called("reschedule", id, False)
       ELSE /\ tasks' = [tasks EXCEPT
                           ![id].next_run = new_start_time,
                           ![id].interval_seconds =
                               IF Truthy(new_interval) THEN new_interval ELSE @,
                           ![id].run_count = 0,
                           ![id].status = PENDING]
            /\ last' = Called("reschedule", id, True)
            /\ cancelledAt' = Del(cancelledAt, id)
            /\ failedRun' = failedRun \ {id}
    /\ UNCHANGED <<now, order, task_handlers, is_running, loop, cancelReq,
                   phase, forcing>>

\* lines 391-402
Reschedule(id, new_start_time, new_interval) ==
    /\ Call
    /\ IF id \notin Ids
       THEN /\ tasks' = tasks /\ UNCHANGED hist
            /\ last' = Called("reschedule", id, False)
       ELSE /\ tasks' = [tasks EXCEPT
                           ![id].next_run = new_start_time,
                           ![id].interval_seconds =
                               IF Truthy(new_interval) THEN new_interval ELSE @,
                           ![id].status = PENDING]
            /\ last' = Called("reschedule", id, True)
            /\ cancelledAt' = Del(cancelledAt, id)
            /\ failedRun' = failedRun \ {id}
    /\ UNCHANGED <<now, order, task_handlers, is_running, loop, cancelReq,
                   phase, forcing>>

\* ForceRun with True returned for an id that is not in the registry
ForceRunUnknownTrue(id) ==
    /\ Call
    /\ IF id \notin Ids
       THEN /\ last' = Called("force_run", id, True)
            /\ UNCHANGED <<tasks, forcing>>
       ELSE /\ tasks' = [tasks EXCEPT ![id] = ExecStart(@, now)]
            /\ forcing' = Put(forcing, id,
                              IF id \in DOMAIN forcing THEN forcing[id] + 1
                              ELSE 1)
            /\ last' = Called("force_run", id, NoCall)
    /\ UNCHANGED <<now, order, task_handlers, is_running, loop, cancelReq,
                   phase, hist>>

\* lines 372-377, 182-186: force_run_task up to the await of the handler
ForceRun(id) ==
    /\ Call
    /\ IF id \notin Ids
       THEN /\ last' = Called("force_run", id, False)
            /\ UNCHANGED <<tasks, forcing>>
       ELSE /\ tasks' = [tasks EXCEPT ![id] = ExecStart(@, now)]
            /\ forcing' = Put(forcing, id,
                              IF id \in DOMAIN forcing THEN forcing[id] + 1
                              ELSE 1)
            /\ last' = Called("force_run", id, NoCall)
    /\ UNCHANGED <<now, order, task_handlers, is_running, loop, cancelReq,
                   phase, hist>>

\* ForceEnd with the call returning False when the handler raised
ForceEndFailureFalse(id, o) ==
    /\ id \in DOMAIN forcing /\ forcing[id] > 0
    /\ tasks' = [tasks EXCEPT ![id] = ExecEnd(@, o, now)]
    /\ forcing' = IF forcing[id] = 1 THEN Del(forcing, id)
                  ELSE [forcing EXCEPT ![id] = @ - 1]
    /\ last' = Called("force_run", id, IF o.kind = "raise" THEN False ELSE True)
    /\ failedRun' = IF o.kind = "raise" THEN failedRun \cup {id} ELSE failedRun
    /\ UNCHANGED <<now, order, task_handlers, is_running, loop, cancelReq,
                   phase, calls, cancelledAt>>

\* lines 186-210, 378: the handler a force_run_task call awaits ends with
\* outcome o; the executor writes the task's new state and the call returns
ForceEnd(id, o) ==
    /\ id \in DOMAIN forcing /\ forcing[id] > 0
    /\ tasks' = [tasks EXCEPT ![id] = ExecEnd(@, o, now)]
    /\ forcing' = IF forcing[id] = 1 THEN Del(forcing, id)
                  ELSE [forcing EXCEPT ![id] = @ - 1]
    /\ last' = Called("force_run", id, True)
    /\ failedRun' = IF o.kind = "raise" THEN failedRun \cup {id} ELSE failedRun
    /\ UNCHANGED <<now, order, task_handlers, is_running, loop, cancelReq,
                   phase, calls, cancelledAt>>

----------------------------------------------------------------------------
(* The queries: get_task_status and get_all_tasks *)

\* Snapshot with the handler left in the copy
SnapshotWithHandler(t) == t

\* lines 353-356, 364-366: a copy of the record without its handler
Snapshot(t) == [f \in DOMAIN t \ {"handler"} |-> t[f]]

\* a query that returned v
Queried(op, id, v) == [Called(op, id, True) EXCEPT !.val = <<v>>]

\* lines 350-358
GetTaskStatus(id) ==
    /\ last' = Queried("get_task_status", id,
                       IF id \in Ids THEN Snapshot(tasks[id]) ELSE None)
    /\ UNCHANGED <<now, tasks, order, task_handlers, is_running, loop,
                   cancelReq, phase, forcing, calls, hist>>

\* lines 360-368: the records in the order of the dict, which is the order in
\* which the ids were inserted
GetAllTasks ==
    /\ last' = Queried("get_all_tasks", NoCall,
                       [k \in 1..Len(order) |-> Snapshot(tasks[order[k]])])
    /\ UNCHANGED <<now, tasks, order, task_handlers, is_running, loop,
                   cancelReq, phase, forcing, calls, hist>>

----------------------------------------------------------------------------
(* Start and stop *)

\* lines 212-249: the default tasks are scheduled one after the other
RECURSIVE ScheduleDefaults(_, _)
ScheduleDefaults(reg, k) ==
    IF k > Len(DefaultTasks) THEN reg
    ELSE LET d == DefaultTasks[k]
         IN  ScheduleDefaults(
                 ScheduleTask(reg, d.id, d.handler, now + d.delay, d.interval,
                              None, d.priority),
                 k + 1)

\* lines 35-39: no await suspends between create_task and the last default
\* schedule_task, so the loop first runs after initialize
Initialize ==
    /\ phase = "new"
    /\ phase' = "running"
    /\ is_running' = TRUE
    /\ loop' = LoopAt("start")
    /\ LET reg == ScheduleDefaults(Registry, 1)
       IN  SetRegistry(reg)
    /\ last' = NoControlCall
    /\ UNCHANGED <<now, cancelReq, forcing, calls, hist>>

\* lines 46-51: shutdown up to its await of the loop
ShutdownBegin ==
    /\ phase = "running"
    /\ phase' = "stopping"
    /\ is_running' = FALSE
    /\ cancelReq' = (loop.pc \notin {"none", "done"})
    /\ last' = NoControlCall
    /\ UNCHANGED <<now, tasks, order, task_handlers, loop, forcing, calls,
                   hist>>

\* lines 56-57: the loop has ended; cancel_task on every task, in one stretch
ShutdownEnd ==
    /\ phase = "stopping"
    /\ loop.pc = "done"
    /\ phase' = "stopped"
    /\ tasks' = [i \in Ids |-> CancelTask(tasks, i)[i]]
    /\ task_handlers' = <<>>
    /\ cancelledAt' = [i \in Ids |-> tasks[i].status]
    /\ last' = NoControlCall
    /\ UNCHANGED <<now, order, is_running, loop, cancelReq, forcing, calls,
                   failedRun>>

\* time passes, from the start of the scheduler to the end of its shutdown
\* (main.py: the application initializes the scheduler as soon as it has
\* constructed it, and ends after the shutdown); the clock is followed for
\* MaxSteps ticks, and for one wait of line 79 more while the loop is in it
Advance ==
    /\ phase \in {"running", "stopping"}
    /\ now < MaxSteps * Step + (IF loop.pc = "backoff" THEN Backoff ELSE 0)
    /\ now' = now + Step
    /\ last' = NoControlCall
    /\ UNCHANGED <<tasks, order, task_handlers, is_running, loop, cancelReq,
                   phase, forcing, calls, hist>>

\* time passes during a shutdown, after the time Advance follows, to the end
\* of the wait the loop is in (line 73 or 79) when no cancellation is there
\* to end that wait
AdvanceStopping ==
    /\ phase = "stopping"
    /\ ~cancelReq
    /\ loop.pc \in {"sleep", "backoff"}
    /\ now >= MaxSteps * Step + (IF loop.pc = "backoff" THEN Backoff ELSE 0)
    /\ now < loop.wake_at
    /\ loop.wake_at <= MaxSteps * Step + 2 * Backoff
    /\ now' = now + Step
    /\ last' = NoControlCall
    /\ UNCHANGED <<tasks, order, task_handlers, is_running, loop, cancelReq,
                   phase, forcing, calls, hist>>

----------------------------------------------------------------------------
(* The specification *)

\* lines 27-31: the state after construction
Init ==
    /\ now = 0
    /\ tasks = <<>>
    /\ order = <<>>
    /\ task_handlers = <<>>
    /\ is_running = FALSE
    /\ loop = LoopAt("none")
    /\ cancelReq = FALSE
    /\ phase = "new"
    /\ forcing = <<>>
    /\ last = NoControlCall
    /\ calls = 0
    /\ cancelledAt = <<>>
    /\ failedRun = {}

AllOutcomes == Outcomes \cup [kind : {"cancelled"}, val : {"None"}]

Next ==
    \/ Initialize
    \/ ShutdownBegin
    \/ ShutdownEnd
    \/ Advance
    \/ LoopTick
    \/ \E o \in AllOutcomes : LoopExecEnd(o)
    \/ LoopCancelled
    \/ \E id \in CallIds, a \in ScheduleArgs :
            Schedule(id, a.handler, a.start_time, a.interval_seconds,
                     a.max_runs, a.priority)
    \/ \E id \in CallIds \cup {UnknownId} : Cancel(id)
    \/ \E id \in CallIds \cup {UnknownId} : Pause(id)
    \/ \E id \in CallIds \cup {UnknownId}, st \in StartTimes \cup {None} :
            Resume(id, st)
    \/ \E id \in CallIds \cup {UnknownId}, st \in StartTimes,
          iv \in Intervals : Reschedule(id, st, iv)
    \/ \E id \in CallIds : Reschedule(id, None, None)
    \/ \E id \in CallIds \cup {UnknownId} : ForceRun(id)
    \/ \E id \in CallIds, o \in Outcomes : ForceEnd(id, o)

Spec == Init /\ [][Next]_vars

\* a second specification, for the scenarios of a task of the callers that
\* take MaxCalls control calls after its scheduling: task "a" is in the
\* registry from the start, put there by schedule_task (lines 91-114) on the
\* constructed service (main.py, line 27)
InitReg ==
    /\ now = 0
    /\ \E a \in ScheduleArgs \cup {ZeroIntervalArgs} :
         LET reg == ScheduleTask(
                        [tasks |-> <<>>, order |-> <<>>, task_handlers |-> <<>>,
                         ret |-> NoCall],
                        "a", a.handler, a.start_time, a.interval_seconds,
                        a.max_runs, a.priority)
         IN  /\ tasks = reg.tasks
             /\ order = reg.order
             /\ task_handlers = reg.task_handlers
    /\ is_running = FALSE
    /\ loop = LoopAt("none")
    /\ cancelReq = FALSE
    /\ phase = "new"
    /\ forcing = <<>>
    /\ last = NoControlCall
    /\ calls = 0
    /\ cancelledAt = <<>>
    /\ failedRun = {}

SpecReg == InitReg /\ [][Next]_vars

\* the specification with the progress the event loop gives: a coroutine that
\* can run does run (the loop at the end of its sleep, at a cancellation, the
\* shutdown once the loop has ended), the clock goes on, and every handler
\* that is awaited ends
Fairness ==
    /\ WF_vars(LoopTick)
    /\ WF_vars(LoopCancelled)
    /\ WF_vars(\E o \in AllOutcomes : LoopExecEnd(o))
    /\ WF_vars(\E id \in CallIds, o \in Outcomes : ForceEnd(id, o))
    /\ WF_vars(ShutdownEnd)
    /\ WF_vars(Advance)
    /\ WF_vars(AdvanceStopping)

\* the steps with the clock followed to the end of a shutdown
NextLive == Next \/ AdvanceStopping

SpecLive == Init /\ [][NextLive]_vars /\ Fairness

\* a specification for the start on a registry that is empty or holds a
\* task under the id of a default task, put there by schedule_task (lines
\* 91-114) on the constructed service before initialize (main.py, lines 27, 42)
InitBoot ==
    /\ now = 0
    /\ \/ /\ tasks = <<>>
          /\ order = <<>>
          /\ task_handlers = <<>>
       \/ \E a \in ScheduleArgs :
             LET reg == ScheduleTask(
                            [tasks |-> <<>>, order |-> <<>>,
                             task_handlers |-> <<>>, ret |-> NoCall],
                            "check_sensor_status", a.handler, a.start_time,
                            a.interval_seconds, a.max_runs, a.priority)
             IN  /\ tasks = reg.tasks
                 /\ order = reg.order
                 /\ task_handlers = reg.task_handlers
    /\ is_running = FALSE
    /\ loop = LoopAt("none")
    /\ cancelReq = FALSE
    /\ phase = "new"
    /\ forcing = <<>>
    /\ last = NoControlCall
    /\ calls = 0
    /\ cancelledAt = <<>>
    /\ failedRun = {}

SpecBoot == InitBoot /\ [][Next]_vars

\* a third specification, with the two queries of the registry among the
\* steps: they are synchronous and can be made at any time
NextQuery ==
    \/ Next
    \/ \E id \in CallIds \cup {UnknownId} : GetTaskStatus(id)
    \/ GetAllTasks

SpecQuery == Init /\ [][NextQuery]_vars

----------------------------------------------------------------------------
(* What the claims speak of *)

\* the invocations of the handler of task i that are in flight: the one the
\* loop awaits (line 70) and those force_run_task calls await (line 377)
InFlightIn(lp, fc, i) ==
    (IF lp.pc = "exec" /\ lp.cur = i THEN 1 ELSE 0)
    + (IF i \in DOMAIN fc THEN fc[i] ELSE 0)
InFlight(i) == InFlightIn(loop, forcing, i)

\* this step invokes the handler of task i
Invokes(i) == InFlightIn(loop', forcing', i) > InFlight(i)

\* this step is a step of the loop in which it dispatches task i (line 70)
LoopDispatches(i) ==
    /\ LoopTick \/ \E o \in AllOutcomes : LoopExecEnd(o)
    /\ loop'.pc = "exec" /\ loop'.cur = i

FailOutcomes == [kind : {"raise"}, val : Errors]
OkOutcomes == [kind : {"ok"}, val : Results]

----------------------------------------------------------------------------
(* Mutual exclusion and cancellation *)

\* C1: at most one invocation of a task's handler is in flight, whatever the
\* interleaving of loop ticks and control calls.  The code does not keep it:
\* force_run_task never looks at the status.
C1_MutualExclusion == \A i \in Ids : InFlight(i) <= 1

\* C2: once cancel_task returned True for a task, the task stays cancelled
\* until resume_task or reschedule_task is called on it; stated for the case
\* the claim singles out, a task cancelled while its handler was running.
\* The code does not keep it: the executor writes its outcome over the status
\* when the handler ends.
C2_CancelledStays ==
    \A i \in DOMAIN cancelledAt :
        cancelledAt[i] = RUNNING => tasks[i].status = CANCELLED

\* C3: cancelling a pending task sets it cancelled at once, and no later loop
\* tick invokes its handler as long as it is neither resumed nor rescheduled.
\* The code does not keep it: force_run_task runs the cancelled task and a
\* successful run of a recurring task makes it pending again.
C3_CancelledPendingNotDispatched ==
    [][\A i \in Ids :
          /\ (Cancel(i) /\ tasks[i].status = PENDING)
                => tasks'[i].status = CANCELLED
          /\ (i \in DOMAIN cancelledAt /\ cancelledAt[i] = PENDING)
                => ~LoopDispatches(i)]_vars

\* C4: after cancel_task returned True for an id (its entry of task_handlers
\* is deleted, lines 130-131, and nothing enters it again), no step invokes
\* the handler of that id.  The code does not keep it: the executor calls
\* task["handler"], which cancel_task leaves in place.
C4_CancelDetachesHandler ==
    [][\A i \in Ids : i \notin DOMAIN task_handlers => ~Invokes(i)]_vars

----------------------------------------------------------------------------
(* Failure of a handler *)

\* the places in todo of the tasks at which a scan with current_time ct
\* stops: the due ones and the ones whose condition raises
DuePlaces(todo, ct) ==
    {k \in 1..Len(todo) :
        IsDue(tasks[todo[k]], ct) \/ Faults(tasks[todo[k]])}

\* C5: a failure of the handler of a dispatched task is contained: the task
\* ends FAILED with last_error set, the loop stays in its tick (it neither
\* ends nor backs off for the failure), and it goes on with the tasks of the
\* tick that are due: the first of them is dispatched in the same step, the
\* others stay in the list the tick still has to examine.  The loop backs off
\* only when the scan itself raises at a task it comes to before any due one.
C5_FailureContained ==
    [][\A o \in FailOutcomes :
          LoopExecEnd(o) =>
             LET due == DuePlaces(loop.todo, loop.current_time)
             IN  /\ tasks'[loop.cur].status = FAILED
                 /\ tasks'[loop.cur].last_error = o.val
                 /\ loop'.pc \in {"exec", "sleep", "backoff"}
                 /\ loop'.pc = "sleep" <=> due = {}
                 /\ loop'.pc = "backoff" <=>
                       \E k \in due : /\ Faults(tasks[loop.todo[k]])
                                      /\ \A j \in due : j >= k
                 /\ loop'.pc = "exec" =>
                       /\ loop'.current_time = loop.current_time
                       /\ \E k \in due :
                             /\ loop'.cur = loop.todo[k]
                             /\ tasks'[loop'.cur].status = RUNNING
                             /\ \A j \in due : j >= k
                             /\ loop'.todo
                                  = SubSeq(loop.todo, k + 1, Len(loop.todo))]_vars

\* a task that was due in the tick failed in it, and the loop now awaits the
\* handler of a later task of the same tick
C5_Witness ==
    /\ loop.pc = "exec"
    /\ \E i \in failedRun :
          /\ i # loop.cur
          /\ tasks[i].status = FAILED
          /\ tasks[i].last_error \in Errors
          /\ tasks[i].next_run <= loop.current_time
          /\ tasks[i].last_run = loop.current_time
          /\ tasks[loop.cur].last_run = loop.current_time
          /\ i \notin DOMAIN forcing

\* C6, as the specification words it: a task whose handler failed is never
\* dispatched by the loop again unless reschedule_task is called on it.  The
\* code does not keep it in these words: force_run_task, or cancel_task and
\* resume_task, bring the task back to PENDING as well.
C6_FailedNeverDispatchedUnlessRescheduled ==
    [][\A i \in failedRun : ~LoopDispatches(i)]_vars

\* C6, amended: a failed run leaves the task FAILED, also when it has an
\* interval, and changes neither run_count nor next_run; the loop never
\* dispatches a task that is FAILED; and a task leaves FAILED only through
\* reschedule_task, force_run_task or cancel_task on it (shutdown cancels every
\* task), or through the end of another invocation of its handler that the
\* loop was still awaiting.
C6_FailedNoRetry ==
    [][/\ \A o \in FailOutcomes :
             /\ LoopExecEnd(o) =>
                   /\ tasks'[loop.cur].status = FAILED
                   /\ tasks'[loop.cur].run_count = tasks[loop.cur].run_count
                   /\ tasks'[loop.cur].next_run = tasks[loop.cur].next_run
             /\ \A i \in Ids :
                   ForceEnd(i, o) =>
                      /\ tasks'[i].status = FAILED
                      /\ tasks'[i].run_count = tasks[i].run_count
                      /\ tasks'[i].next_run = tasks[i].next_run
       /\ \A i \in Ids :
             tasks[i].status = FAILED =>
                /\ ~LoopDispatches(i)
                /\ tasks'[i].status # FAILED =>
                      \/ last'.id = i
                         /\ last'.op \in {"reschedule", "force_run", "cancel"}
                      \/ ShutdownEnd
                      \/ /\ loop.pc = "exec" /\ loop.cur = i
                         /\ \E o \in AllOutcomes : LoopExecEnd(o)]_vars

\* the only control call so far scheduled "a" as a recurring task; the loop
\* ran it, its handler failed, and a later tick of the loop, at which its
\* next_run was due, has passed over it
C6_Witness ==
    /\ calls = 1
    /\ "a" \in failedRun
    /\ tasks["a"].status = FAILED
    /\ Truthy(tasks["a"].interval_seconds)
    /\ tasks["a"].run_count = 0
    /\ loop.pc = "sleep"
    /\ loop.current_time > tasks["a"].last_run
    /\ tasks["a"].next_run <= loop.current_time

----------------------------------------------------------------------------
(* schedule_task *)

\* the keys of self.tasks, each once
OneRecordPerId(tk, o) ==
    /\ {o[k] : k \in 1..Len(o)} = DOMAIN tk
    /\ \A j, k \in 1..Len(o) : o[j] = o[k] => j = k
    /\ \A i \in DOMAIN tk : tk[i].id = i

\* C7: schedule_task on an id that is in the registry, whatever the status of
\* its task, returns False and leaves the record, its handler with it, as it
\* was; the registry keeps one record for each id.  (A step is a schedule_task
\* call exactly if last' observes one.)
C7_ScheduleExistingId ==
    [][(last'.op = "schedule" /\ last'.id \in Ids)
          => /\ last'.ret = False
             /\ tasks' = tasks
             /\ task_handlers' = task_handlers
             /\ order' = order
             /\ OneRecordPerId(tasks', order')]_vars

\* schedule_task has just returned False for an id whose task is cancelled,
\* completed or failed, and the record still holds the handler it was
\* scheduled with
C7_Witness ==
    /\ last.op = "schedule"
    /\ last.ret = False
    /\ last.id \in Ids
    /\ tasks[last.id].status \in {CANCELLED, COMPLETED, FAILED}
    /\ \E k \in 1..Len(DefaultTasks) :
          /\ DefaultTasks[k].id = last.id
          /\ tasks[last.id].handler = DefaultTasks[k].handler

\* C8: schedule_task on an id that is not in the registry returns True and
\* creates the record with status PENDING, next_run the start_time, run_count
\* 0, the interval, max_runs and priority it was given, NORMAL when the
\* priority is omitted; the other records are as they were.
C8_ScheduleNewId ==
    [][\A id \in CallIds, a \in ScheduleArgs :
          (id \notin Ids /\ Schedule(id, a.handler, a.start_time,
                                     a.interval_seconds, a.max_runs,
                                     a.priority))
             => /\ last'.ret = True
                /\ DOMAIN tasks' = Ids \cup {id}
                /\ tasks'[id].id = id
                /\ tasks'[id].handler = a.handler
                /\ tasks'[id].status = PENDING
                /\ tasks'[id].next_run = a.start_time
                /\ tasks'[id].run_count = 0
                /\ tasks'[id].interval_seconds = a.interval_seconds
                /\ tasks'[id].max_runs = a.max_runs
                /\ tasks'[id].priority
                     = (IF a.priority = None THEN NORMAL ELSE a.priority)
                /\ task_handlers'[id] = a.handler
                /\ \A j \in Ids : tasks'[j] = tasks[j]
                /\ OneRecordPerId(tasks', order')]_vars

\* schedule_task has just returned True for a new id, given no priority, next
\* to the records of the default tasks
C8_Witness ==
    /\ last.op = "schedule"
    /\ last.ret = True
    /\ last.id \in Ids
    /\ tasks[last.id].handler = "H1"
    /\ tasks[last.id].interval_seconds = None
    /\ tasks[last.id].priority = NORMAL
    /\ tasks[last.id].status = PENDING
    /\ tasks[last.id].run_count = 0
    /\ Cardinality(Ids) = Len(DefaultTasks) + 1

----------------------------------------------------------------------------
(* The end of a successful run *)

\* C9: when the loop has run a task that has no interval, scheduled with a
\* start_time that is past, and its handler succeeded, the task is COMPLETED
\* with one run more on its count, one in all at its first run; the loop never
\* dispatches a task that is COMPLETED, and its ticks leave that record alone.
C9_OneShotCompletes ==
    [][/\ \A o \in OkOutcomes :
             (LoopExecEnd(o) /\ tasks[loop.cur].interval_seconds = None)
                => /\ tasks'[loop.cur].status = COMPLETED
                   /\ tasks'[loop.cur].run_count
                        = tasks[loop.cur].run_count + 1
                   /\ tasks[loop.cur].run_count = 0
                        => tasks'[loop.cur].run_count = 1
                   /\ tasks'[loop.cur].last_result = o.val
       /\ \A i \in Ids :
             tasks[i].status = COMPLETED =>
                /\ ~LoopDispatches(i)
                /\ LoopTick => tasks'[i] = tasks[i]]_vars

\* the only control call so far scheduled "a" with no interval and a start_time
\* that was past; the loop ran it once, and a later tick of the loop has
\* passed over it
C9_Witness ==
    /\ calls = 1
    /\ "a" \in Ids
    /\ tasks["a"].interval_seconds = None
    /\ tasks["a"].status = COMPLETED
    /\ tasks["a"].run_count = 1
    /\ tasks["a"].next_run < tasks["a"].created_at
    /\ loop.pc = "sleep"
    /\ loop.current_time > tasks["a"].last_run

\* C10: a successful run by the loop of a task with an interval and with
\* max_runs set adds one to run_count; if the count has reached max_runs the
\* task is COMPLETED and next_run keeps the value it had before that run,
\* otherwise the task is PENDING again with a new next_run, one interval after
\* the end of the run.  So the task is PENDING after each of its first N-1
\* runs and COMPLETED, with run_count N, after the Nth.
C10_MaxRunsCompletes ==
    [][\A o \in OkOutcomes :
          (/\ LoopExecEnd(o)
           /\ Truthy(tasks[loop.cur].interval_seconds)
           /\ Truthy(tasks[loop.cur].max_runs))
             => LET t == tasks[loop.cur]
                    u == tasks'[loop.cur]
                IN  /\ u.run_count = t.run_count + 1
                    /\ u.max_runs = t.max_runs
                    /\ IF u.run_count >= t.max_runs
                       THEN u.status = COMPLETED /\ u.next_run = t.next_run
                       ELSE /\ u.status = PENDING
                            /\ u.next_run = now + t.interval_seconds]_vars

\* the only control call so far scheduled "a" with an interval and max_runs
\* 2; the loop ran it at two ticks an interval apart, and it is COMPLETED with
\* the next_run its first run computed
C10_Witness ==
    /\ calls = 1
    /\ "a" \in Ids
    /\ Truthy(tasks["a"].interval_seconds)
    /\ tasks["a"].max_runs = 2
    /\ tasks["a"].run_count = 2
    /\ tasks["a"].status = COMPLETED
    /\ tasks["a"].next_run = tasks["a"].last_run
    /\ tasks["a"].next_run < now + tasks["a"].interval_seconds

----------------------------------------------------------------------------
(* max_runs and next_run *)

\* C11: max_runs, when it is set (0 included), bounds the executions of the
\* task: run_count never exceeds it.  The code does not keep it: line 192
\* takes max_runs 0 for no bound, and force_run_task and reschedule_task run a
\* task again whose count has reached the bound.
C11_MaxRunsBounds ==
    \A i \in Ids :
        tasks[i].max_runs # None => tasks[i].run_count <= tasks[i].max_runs

\* the run of t that ends now with success leaves t recurring: it has an
\* interval and the run does not reach max_runs
StaysRecurring(t) ==
    /\ Truthy(t.interval_seconds)
    /\ ~(Truthy(t.max_runs) /\ t.run_count + 1 >= t.max_runs)

\* C12: a successful run, by the loop or by force_run_task, of a task that has
\* an interval and does not reach max_runs leaves it PENDING with next_run
\* the time the handler completed plus the interval; the task is then not due
\* at any time before that, and the loop dispatches a task only when its
\* next_run has come.
C12_NextRunAfterCompletion ==
    [][/\ \A o \in OkOutcomes :
             /\ (LoopExecEnd(o) /\ StaysRecurring(tasks[loop.cur]))
                   => /\ tasks'[loop.cur].status = PENDING
                      /\ tasks'[loop.cur].next_run
                           = now + tasks[loop.cur].interval_seconds
                      /\ \A ct \in 0..(now + tasks[loop.cur].interval_seconds - 1) :
                            ~IsDue(tasks'[loop.cur], ct)
             /\ \A i \in DOMAIN forcing :
                   (StaysRecurring(tasks[i]) /\ ForceEnd(i, o))
                      => /\ tasks'[i].status = PENDING
                         /\ tasks'[i].next_run = now + tasks[i].interval_seconds
       /\ (loop'.pc = "exec" /\ LoopDispatches(loop'.cur))
             => tasks[loop'.cur].next_run <= now]_vars

\* the only control call so far scheduled "a" with an interval; the loop ran
\* it, its handler took a loop period to complete, and the task is PENDING with
\* next_run an interval from now, the time of the completion
C12_Witness ==
    /\ calls = 1
    /\ "a" \in Ids
    /\ Truthy(tasks["a"].interval_seconds)
    /\ tasks["a"].status = PENDING
    /\ tasks["a"].run_count = 1
    /\ tasks["a"].last_run < now
    /\ tasks["a"].next_run = now + tasks["a"].interval_seconds
    /\ loop.pc = "sleep"
    /\ loop.wake_at = now + Sleep

\* C13, as the specification words it: the first run by the loop of a
\* recurring task scheduled with start_time T0 and no max_runs, on which no
\* other control call was made, leaves run_count 1, status PENDING, the result
\* in last_result and next_run = T0 + interval.  The code computes next_run
\* from the time the handler completed (line 197), which is later than T0 as
\* soon as the tick is after T0 or the handler takes time.
C13_NextRunFromStartTime ==
    [][\A o \in OkOutcomes :
          (/\ LoopExecEnd(o)
           /\ calls <= 1
           /\ Truthy(tasks[loop.cur].interval_seconds)
           /\ tasks[loop.cur].max_runs = None
           /\ tasks[loop.cur].run_count = 0)
             => /\ tasks'[loop.cur].run_count = 1
                /\ tasks'[loop.cur].status = PENDING
                /\ tasks'[loop.cur].last_result = o.val
                /\ tasks'[loop.cur].next_run
                     = tasks[loop.cur].next_run
                       + tasks[loop.cur].interval_seconds]_vars

\* C13, amended: such a run leaves run_count 1 (one more than before), status
\* PENDING, the result in last_result and next_run = the time the handler
\* completed + interval; the run started at a tick at or after next_run, so
\* the new next_run is T0 + interval at the earliest.
C13_NextRunFromCompletion ==
    [][/\ \A o \in OkOutcomes :
             (/\ LoopExecEnd(o)
              /\ Truthy(tasks[loop.cur].interval_seconds)
              /\ tasks[loop.cur].max_runs = None)
                => /\ tasks'[loop.cur].run_count
                        = tasks[loop.cur].run_count + 1
                   /\ tasks'[loop.cur].status = PENDING
                   /\ tasks'[loop.cur].last_result = o.val
                   /\ tasks'[loop.cur].next_run
                        = now + tasks[loop.cur].interval_seconds
                   /\ tasks'[loop.cur].next_run
                        >= tasks[loop.cur].last_run
                           + tasks[loop.cur].interval_seconds
       /\ (loop'.pc = "exec" /\ LoopDispatches(loop'.cur))
             => /\ tasks'[loop'.cur].last_run = now
                /\ tasks'[loop'.cur].last_run >= tasks[loop'.cur].next_run]_vars

\* every recurring task the callers schedule has start_time 0; the only
\* control call so far scheduled "a" as one of them, with no max_runs; the
\* loop ran it once, and its next_run is later than start_time + interval
C13_Witness ==
    /\ \A a \in ScheduleArgs :
          Truthy(a.interval_seconds) => a.start_time = 0
    /\ calls = 1
    /\ "a" \in Ids
    /\ Truthy(tasks["a"].interval_seconds)
    /\ tasks["a"].max_runs = None
    /\ tasks["a"].run_count = 1
    /\ tasks["a"].status = PENDING
    /\ tasks["a"].last_result \in Results
    /\ tasks["a"].next_run > 0 + tasks["a"].interval_seconds

----------------------------------------------------------------------------
(* pause_task, resume_task, reschedule_task, cancel_task *)

\* the registry but for the record of task i
SameButRecord(i) ==
    /\ DOMAIN tasks' = DOMAIN tasks
    /\ \A j \in Ids \ {i} : tasks'[j] = tasks[j]
    /\ task_handlers' = task_handlers
    /\ order' = order

\* C14: pause_task returns True exactly when the task exists and is PENDING,
\* and then the task is CANCELLED, nothing else changed; for a task in another
\* status, or an unknown id, it returns False and leaves the registry as it
\* was.  (A step is a pause_task call exactly if last' observes one.)
C14_PauseOnlyPending ==
    [][last'.op = "pause" =>
          LET i == last'.id
          IN  IF i \in Ids /\ tasks[i].status = PENDING
              THEN /\ last'.ret = True
                   /\ tasks'[i] = [tasks[i] EXCEPT !.status = CANCELLED]
                   /\ SameButRecord(i)
              ELSE /\ last'.ret = False
                   /\ UNCHANGED <<tasks, task_handlers, order>>]_vars

\* the scheduler is running, pause_task has just returned False for a task
\* that is CANCELLED, and no cancel_task call was made on that task: a first
\* pause_task call, which returned True, made it so
C14_Witness ==
    /\ phase = "running"
    /\ last = Called("pause", last.id, False)
    /\ last.id \in Ids
    /\ tasks[last.id].status = CANCELLED
    /\ last.id \notin DOMAIN cancelledAt
    /\ calls = 2

\* C15: resume_task returns True exactly when the task exists and is
\* CANCELLED, and then the task is PENDING with next_run the new_start_time it
\* was given, now + 5 minutes when it was given none, nothing else changed;
\* for a task in another status, or an unknown id, it returns False and leaves
\* the registry as it was.
C15_ResumeOnlyCancelled ==
    [][last'.op = "resume" =>
          \A i \in {last'.id}, st \in StartTimes \cup {None} :
             Resume(i, st) =>
                IF i \in Ids /\ tasks[i].status = CANCELLED
                THEN /\ last'.ret = True
                     /\ tasks'[i]
                          = [tasks[i] EXCEPT
                               !.status = PENDING,
                               !.next_run = IF st = None
                                            THEN now + 5 * 60 ELSE st]
                     /\ SameButRecord(i)
                ELSE /\ last'.ret = False
                     /\ UNCHANGED <<tasks, task_handlers, order>>]_vars

\* resume_task, given no new_start_time, has just returned True some time
\* after the task was created: the task is PENDING, 5 minutes from now
C15_Witness ==
    /\ last = Called("resume", last.id, True)
    /\ last.id \in Ids
    /\ tasks[last.id].status = PENDING
    /\ tasks[last.id].next_run = now + ResumeDelay
    /\ now > tasks[last.id].created_at

\* C16: after a resume_task call that returned True, whatever new_start_time
\* it was given, the task is PENDING with next_run not before the time of the
\* call.  The code does not keep it: line 168 stores the new_start_time as it
\* is given, a past one too.
C16_ResumeNotInPast ==
    [][(last'.op = "resume" /\ last'.ret = True)
          => /\ tasks'[last'.id].status = PENDING
             /\ tasks'[last'.id].next_run >= now]_vars

\* C17: reschedule_task returns True for an id that exists, whatever the
\* status of its task: next_run is the new_start_time, the status is PENDING,
\* and the interval changes only when a new_interval is given: it is the
\* new_interval when that is given and not 0, and stays as it was when none is
\* given (line 397 takes a new_interval of 0 as none).  All other fields of
\* the record and all other records stay as they were.  For an unknown id it
\* returns False and changes nothing.
C17_RescheduleFrame ==
    [][last'.op = "reschedule" =>
          \A i \in {last'.id}, st \in StartTimes, iv \in Intervals :
             Reschedule(i, st, iv) =>
                IF i \in Ids
                THEN /\ last'.ret = True
                     /\ tasks'[i].next_run = st
                     /\ tasks'[i].status = PENDING
                     /\ tasks'[i].interval_seconds # tasks[i].interval_seconds
                           => iv # None
                     /\ iv = None
                           => tasks'[i].interval_seconds
                                = tasks[i].interval_seconds
                     /\ (iv # None /\ iv # 0)
                           => tasks'[i].interval_seconds = iv
                     /\ [tasks'[i] EXCEPT !.next_run = 0, !.status = PENDING,
                                          !.interval_seconds = None]
                          = [tasks[i] EXCEPT !.next_run = 0, !.status = PENDING,
                                             !.interval_seconds = None]
                     /\ SameButRecord(i)
                ELSE /\ last'.ret = False
                     /\ UNCHANGED <<tasks, task_handlers, order>>]_vars

\* reschedule_task has just returned True for a task with no interval that
\* had run once, so that it was not PENDING: it is PENDING, with its count and
\* its result
C17_Witness ==
    /\ last = Called("reschedule", last.id, True)
    /\ last.id \in Ids
    /\ calls = 2
    /\ tasks[last.id].status = PENDING
    /\ tasks[last.id].interval_seconds = None
    /\ tasks[last.id].run_count = 1
    /\ tasks[last.id].last_result \in Results
    /\ last.id \notin DOMAIN forcing

\* C18: cancel_task, called directly or by shutdown, sets the task CANCELLED
\* unless it is COMPLETED or FAILED, and then leaves its status as it is; it
\* returns False for an unknown id.  The code does not keep it: line 127 sets
\* CANCELLED whatever the status.
C18_CancelSparesTerminal ==
    [][/\ last'.op = "cancel" =>
             IF last'.id \in Ids
             THEN tasks'[last'.id].status
                    = (IF tasks[last'.id].status \in {COMPLETED, FAILED}
                       THEN tasks[last'.id].status ELSE CANCELLED)
             ELSE last'.ret = False /\ tasks' = tasks
       /\ ShutdownEnd =>
             \A i \in Ids :
                 tasks'[i].status
                   = (IF tasks[i].status \in {COMPLETED, FAILED}
                      THEN tasks[i].status ELSE CANCELLED)]_vars

----------------------------------------------------------------------------
(* The loop and the handlers it awaits *)

\* C19: the tasks that are due at a tick are dispatched concurrently, none
\* waits for the handler of another: at the tick every due task enters its
\* run.  The code does not keep it: the loop awaits each handler (line 70)
\* before it looks at the next task, so a handler that never returns keeps
\* every later task from running.
C19_DueTasksDispatchedTogether ==
    [][(LoopTick /\ is_running)
          => \A i \in Ids : IsDue(tasks[i], now) => tasks'[i].status = RUNNING]_vars

\* C20: shutdown does not interrupt a handler that is running: the run the
\* loop awaits ends with the outcome of its handler, and the record gets the
\* executor's COMPLETED, PENDING or FAILED; it is not marked CANCELLED by the
\* signal.  The code does not keep it: scheduler_task.cancel() (line 49)
\* raises CancelledError in the handler the loop awaits, and lines 204-205
\* set the task CANCELLED.
C20_ShutdownSparesRunningHandler ==
    [][\A o \in AllOutcomes :
          LoopExecEnd(o)
             => /\ o.kind # "cancelled"
                /\ tasks'[loop.cur].status \in {COMPLETED, PENDING, FAILED}]_vars

----------------------------------------------------------------------------
(* shutdown *)

\* C21: when shutdown returns no task is PENDING or RUNNING, and the handler
\* executions that were in flight do not change that when they complete
\* afterwards: once shutdown has returned, only a control call that the
\* callers make then (schedule_task, resume_task, reschedule_task,
\* force_run_task) brings a task to PENDING or RUNNING.  The code does not keep
\* it: the executor of a force_run_task call that is still awaiting its
\* handler writes its outcome over CANCELLED.
C21_ShutdownLeavesNoneActive ==
    [][/\ ShutdownEnd
             => \A i \in Ids : tasks'[i].status \notin {PENDING, RUNNING}
       /\ (/\ phase = "stopped"
           /\ last'.op \notin {"schedule", "resume", "reschedule"}
           /\ ~(last'.op = "force_run" /\ last'.ret = NoCall))
             => \A i \in Ids :
                   tasks'[i].status \in {PENDING, RUNNING}
                      => tasks[i].status \in {PENDING, RUNNING}]_vars

\* C22: once shutdown has been called the loop dispatches no task any more,
\* also when the cancellation reaches it while it awaits a handler and other
\* tasks of the tick are due.  The code does not keep it: the executor
\* swallows the CancelledError (lines 204-206) and the scan of line 68 goes on
\* with the tasks that are left.
C22_NoDispatchAfterShutdown ==
    [][(loop'.pc = "exec" /\ LoopDispatches(loop'.cur))
          => phase = "running"]_vars

----------------------------------------------------------------------------
(* An error of the scan *)

\* C23: an error raised by the scan itself (the condition of line 69, not a
\* handler) does not end the loop.  The loop ends only when it is cancelled
\* or finds is_running false; the scan that raises leaves it in the wait of
\* Backoff seconds, with the tasks as they were; and from that wait the
\* loop moves only when the wait is over, to a new scan with a new
\* current_time while the scheduler runs, or when it is cancelled.
C23_LoopFaultBacksOff ==
    [][/\ (loop'.pc = "done" /\ loop.pc # "done")
             => (cancelReq \/ ~is_running)
       /\ (LoopTick /\ is_running /\ DuePlaces(order, now) # {}
             /\ \E k \in DuePlaces(order, now) :
                   /\ Faults(tasks[order[k]])
                   /\ \A j \in DuePlaces(order, now) : j >= k)
             => /\ loop'.pc = "backoff"
                /\ loop'.wake_at = now + Backoff
                /\ tasks' = tasks
       /\ (loop.pc = "backoff" /\ loop' # loop)
             => \/ loop'.pc = "done" /\ (cancelReq \/ ~is_running)
                \/ /\ is_running /\ ~cancelReq
                   /\ now >= loop.wake_at
                   /\ loop'.pc \in {"exec", "sleep", "backoff"}
                   /\ loop'.current_time = now]_vars

\* the scan of a tick raised, the loop waited the Backoff seconds, and it has
\* made the scan of the next tick, which raised no more
C23_Witness ==
    /\ is_running
    /\ loop.pc \in {"exec", "sleep"}
    /\ loop.current_time >= Backoff
    /\ \A i \in Ids : ~Faults(tasks[i])

----------------------------------------------------------------------------
(* The states of a task *)

\* C24: the loop dispatches a task only when the task is PENDING and its
\* next_run is not later than the current_time of the tick; a task becomes
\* RUNNING only in a step that invokes its handler (a dispatch of the loop or
\* force_run_task); the executor ending a run leaves a RUNNING task
\* COMPLETED, FAILED, CANCELLED or PENDING; and the next_run of a task that is
\* not PENDING plays no part in a scan: the scan raises only for a PENDING
\* task.
C24_DispatchOnlyPendingDue ==
    [][/\ (loop'.pc = "exec" /\ LoopDispatches(loop'.cur))
             => /\ tasks[loop'.cur].status = PENDING
                /\ tasks[loop'.cur].next_run # None
                /\ tasks[loop'.cur].next_run <= loop'.current_time
       /\ tasks' # tasks
             => \A i \in Ids :
                   (tasks'[i].status = RUNNING /\ tasks[i].status # RUNNING)
                      => Invokes(i)
       /\ (loop.pc = "exec" /\ loop' # loop /\ tasks[loop.cur].status = RUNNING)
             => tasks'[loop.cur].status
                   \in {COMPLETED, FAILED, CANCELLED, PENDING}
       /\ (last'.op = "force_run" /\ last'.ret = True
             /\ tasks[last'.id].status = RUNNING)
             => tasks'[last'.id].status
                   \in {COMPLETED, FAILED, CANCELLED, PENDING}
       /\ (loop'.pc = "backoff" /\ loop' # loop)
             => \E i \in Ids : /\ tasks'[i].status = PENDING
                               /\ tasks'[i].next_run = None]_vars

\* task "a" was dispatched when it was PENDING and due and ran once; then it
\* was cancelled, and the scan of the next tick, at a time its next_run has
\* come, has passed over it (the two calls, schedule_task and cancel_task,
\* were made before that tick)
C24_Witness ==
    /\ "a" \in Ids
    /\ phase = "running"
    /\ calls = 2
    /\ last = NoControlCall
    /\ now = Step
    /\ loop.pc = "sleep"
    /\ loop.current_time = Step
    /\ tasks["a"].status = CANCELLED
    /\ tasks["a"].run_count = 1
    /\ tasks["a"].next_run # None
    /\ tasks["a"].next_run <= loop.current_time
    /\ tasks["a"].last_run < loop.current_time
    /\ "a" \notin DOMAIN forcing

----------------------------------------------------------------------------
(* force_run_task *)

\* C25: force_run_task on an id of the registry invokes the handler of the
\* task once, at once and whatever its next_run (the run starts in the step
\* of the call: the task is RUNNING with last_run now); when the handler ends
\* the record gets what a run of the loop gives it (a result: last_result,
\* run_count one more, COMPLETED or PENDING by max_runs and the interval; an
\* error: FAILED with last_error, run_count as it was) and the call returns
\* True, also for the error.  On an id that is not in the registry the call
\* returns False and changes nothing.
C25_ForceRun ==
    [][last'.op = "force_run" =>
          LET i == last'.id
          IN  /\ last'.ret = False
                    <=> i \notin Ids
              /\ last'.ret = False
                    => /\ tasks' = tasks /\ forcing' = forcing /\ loop' = loop
              /\ last'.ret = NoCall
                    => /\ InFlightIn(loop', forcing', i) = InFlight(i) + 1
                       /\ tasks'[i] = [tasks[i] EXCEPT !.status = RUNNING,
                                                       !.last_run = now]
              /\ last'.ret = True
                    => \A o \in Outcomes :
                          ForceEnd(i, o) =>
                             LET t == tasks[i]
                                 u == tasks'[i]
                             IN  /\ InFlightIn(loop', forcing', i)
                                       = InFlight(i) - 1
                                 /\ o.kind = "raise"
                                       => /\ u.status = FAILED
                                          /\ u.last_error = o.val
                                          /\ u.run_count = t.run_count
                                 /\ o.kind = "ok"
                                       => /\ u.last_result = o.val
                                          /\ u.run_count = t.run_count + 1
                                          /\ u.status
                                               = IF StaysRecurring(t)
                                                 THEN PENDING ELSE COMPLETED
                                          /\ u.status = PENDING
                                               => u.next_run
                                                    = now + t.interval_seconds]_vars

\* a force_run_task call on a default task, whose next_run is still to come,
\* has returned True after the handler it invoked raised
C25_Witness ==
    /\ last = Called("force_run", "check_sensor_status", True)
    /\ tasks["check_sensor_status"].status = FAILED
    /\ tasks["check_sensor_status"].last_error \in Errors
    /\ tasks["check_sensor_status"].run_count = 0
    /\ tasks["check_sensor_status"].last_run # None
    /\ tasks["check_sensor_status"].next_run > now
    /\ calls = 1

----------------------------------------------------------------------------
(* The records of the registry *)

\* C26: no step removes a record from the registry or changes the id or the
\* created_at of a record: every id of the registry is in it after the step,
\* with the record under it carrying that id and the created_at it had.
C26_RecordsPersist ==
    [][\A i \in Ids :
          /\ i \in DOMAIN tasks'
          /\ tasks'[i].id = i
          /\ tasks'[i].created_at = tasks[i].created_at]_vars

\* task "a" was scheduled at the start, has run, and was cancelled by the
\* shutdown at a later time: its record is in the registry as it was created,
\* without an entry in task_handlers
C26_Witness ==
    /\ phase = "stopped"
    /\ "a" \in Ids
    /\ tasks["a"].id = "a"
    /\ tasks["a"].status = CANCELLED
    /\ tasks["a"].created_at < now
    /\ tasks["a"].run_count >= 1
    /\ "a" \notin DOMAIN task_handlers

\* C27: run_count counts the runs that gave a result: no step makes it
\* smaller; the step in which a handler ends, awaited by the loop or by
\* force_run_task, adds one when the handler returned a result and leaves it
\* when the handler raised or was cancelled; and a step in which no run of
\* the task ends (every control call among them) leaves it as it is.
C27_RunCountCountsResults ==
    [][/\ tasks' # tasks
             => \A i \in Ids :
                   /\ tasks'[i].run_count >= tasks[i].run_count
                   /\ InFlightIn(loop', forcing', i) >= InFlight(i)
                         => tasks'[i].run_count = tasks[i].run_count
       /\ (loop.pc = "exec" /\ loop' # loop)
             => \A o \in AllOutcomes :
                   LoopExecEnd(o)
                      => tasks'[loop.cur].run_count
                           = tasks[loop.cur].run_count
                             + (IF o.kind = "ok" THEN 1 ELSE 0)
       /\ (last'.op = "force_run" /\ last'.ret = True)
             => \A o \in Outcomes :
                   ForceEnd(last'.id, o)
                      => tasks'[last'.id].run_count
                           = tasks[last'.id].run_count
                             + (IF o.kind = "ok" THEN 1 ELSE 0)]_vars

\* task "a" ran with a result and then ran again and failed, with no control
\* call but its scheduling: the one run is counted
C27_Witness ==
    /\ "a" \in Ids
    /\ calls = 1
    /\ tasks["a"].status = FAILED
    /\ "a" \in failedRun
    /\ tasks["a"].last_result \in Results
    /\ tasks["a"].run_count = 1

----------------------------------------------------------------------------
(* Control calls while a handler runs *)

\* C28: a reschedule_task call that returned True while the handler of the
\* task was running is not lost: when the handler ends, in the step after the
\* call, the task is PENDING with the next_run the call gave it.  The code
\* does not keep it: the executor writes its own status, and for a recurring
\* task its own next_run, over what the call wrote (lines 192-202, 208).
C28_RescheduleNotLost ==
    [][(/\ last.op = "reschedule" /\ last.ret = True
        /\ tasks[last.id].next_run # None
        /\ InFlight(last.id) = 1
        /\ InFlightIn(loop', forcing', last.id) = 0)
          => /\ tasks'[last.id].status = PENDING
             /\ tasks'[last.id].next_run = tasks[last.id].next_run]_vars

\* C29: a control call does not wait for a handler: the step that takes the
\* call is the step in which it returns, so no call is ever left waiting for
\* the end of a run.  The code does not keep it for force_run_task, which
\* awaits the executor and with it the handler (line 377) before it returns.
C29_ControlCallsDoNotWait ==
    /\ last.op # NoControlCall.op => last.ret \in {True, False}
    /\ forcing = <<>>

----------------------------------------------------------------------------
(* The queries *)

\* C30: get_all_tasks returns one snapshot for every record, in the order in
\* which the ids were first scheduled: a snapshot has the fields of its
\* record but the handler, with the values of the record; the ids of the
\* snapshots are the list of the ids in which initialize puts the default
\* tasks in their sequence, to which a schedule_task that returns True adds
\* its id at the end, and which no other step changes.  get_task_status
\* returns the snapshot of the record of the id, or None for an id that is
\* not in the registry.  Neither changes the registry.
C30_QueriesGiveSnapshots ==
    [][/\ last'.op = "get_all_tasks"
             => LET v == last'.val[1]
                IN  /\ tasks' = tasks /\ order' = order
                    /\ task_handlers' = task_handlers
                    /\ Len(v) = Cardinality(Ids)
                    /\ \A k \in 1..Len(v) :
                          /\ v[k].id = order[k]
                          /\ DOMAIN v[k] = DOMAIN tasks[order[k]] \ {"handler"}
                          /\ \A f \in DOMAIN v[k] : v[k][f] = tasks[order[k]][f]
                          /\ \A j \in 1..(k - 1) : v[j].id # v[k].id
       /\ last'.op = "get_task_status"
             => /\ tasks' = tasks /\ order' = order
                /\ task_handlers' = task_handlers
                /\ IF last'.id \in Ids
                   THEN LET u == last'.val[1]
                        IN  /\ DOMAIN u = DOMAIN tasks[last'.id] \ {"handler"}
                            /\ \A f \in DOMAIN u : u[f] = tasks[last'.id][f]
                   ELSE last'.val = <<None>>
       /\ order' = IF last'.op = "schedule" /\ last'.ret = True
                   THEN Append(order, last'.id)
                   ELSE IF phase = "new" /\ phase' # "new"
                   THEN order \o [k \in 1..Len(DefaultTasks) |->
                                     DefaultTasks[k].id]
                   ELSE order]_vars

\* get_all_tasks has returned the five records, the task the callers
\* scheduled last, after it has run, and a default task cancelled
C30_Witness ==
    /\ last.op = "get_all_tasks"
    /\ Len(last.val[1]) = 5
    /\ last.val[1][5].id = "a"
    /\ last.val[1][5].run_count = 1
    /\ \E k \in 1..4 : /\ last.val[1][k].id = "check_sensor_status"
                       /\ last.val[1][k].status = CANCELLED
    /\ \A k \in 1..5 : "handler" \notin DOMAIN last.val[1][k]

----------------------------------------------------------------------------
(* The default tasks *)

\* C31: initialize registers the four system tasks as schedule_task does:
\* cleanup_old_data (delay 3600 s, interval 86400 s, LOW), retrain_models
\* (7200 s, 604800 s, NORMAL), check_sensor_status (300 s, 300 s, HIGH) and
\* cleanup_notifications (21600 s, 86400 s, LOW).  After it the registry has
\* the ids it had and these four; each of the four that was not in it has the
\* record schedule_task creates (PENDING, run_count 0, no max_runs, next_run
\* the time of the start plus the delay, the interval and the priority of the
\* task) and its handler in task_handlers; a record that was in the registry,
\* under the id of a default task or another, is as it was.
C31_BootstrapDefaults ==
    [][(phase = "new" /\ phase' = "running")
          => LET D == { [id |-> "cleanup_old_data", delay |-> 3600,
                         interval |-> 86400, priority |-> LOW],
                        [id |-> "retrain_models", delay |-> 7200,
                         interval |-> 604800, priority |-> NORMAL],
                        [id |-> "check_sensor_status", delay |-> 300,
                         interval |-> 300, priority |-> HIGH],
                        [id |-> "cleanup_notifications", delay |-> 21600,
                         interval |-> 86400, priority |-> LOW] }
             IN  /\ DOMAIN tasks' = Ids \cup {d.id : d \in D}
                 /\ \A i \in Ids :
                       /\ tasks'[i] = tasks[i]
                       /\ task_handlers'[i] = task_handlers[i]
                 /\ \A d \in D :
                       d.id \notin Ids
                          => LET u == tasks'[d.id]
                             IN  /\ u.id = d.id
                                 /\ u.status = PENDING
                                 /\ u.run_count = 0
                                 /\ u.max_runs = None
                                 /\ u.next_run = now + d.delay
                                 /\ u.interval_seconds = d.interval
                                 /\ u.priority = d.priority
                                 /\ u.created_at = now
                                 /\ u.last_run = None
                                 /\ task_handlers'[d.id] = u.handler]_vars

\* initialize has run on the empty registry: the registry holds the four
\* default tasks, in the sequence of their scheduling, and no call was made
C31_Witness ==
    /\ phase = "running"
    /\ calls = 0
    /\ loop.pc = "start"
    /\ order = <<"cleanup_old_data", "retrain_models", "check_sensor_status",
                 "cleanup_notifications">>
    /\ \A i \in Ids : tasks[i].status = PENDING /\ tasks[i].created_at = now

----------------------------------------------------------------------------
(* The order of the dispatches *)

\* C32: the priority of a task plays no part in the dispatch.  A step of the
\* scan goes through the list of the ids of the tick, which is in the order
\* of their insertion: when it dispatches a task, no task before it in the
\* list is due, and the tasks after it are the list the tick still has to
\* examine; when it goes to sleep, no task of the list is due.  And the scan
\* that starts a tick comes to the same place of the loop when the priority
\* of any one task is changed to any other, and when all priorities are
\* reversed.
C32_PriorityNotConsulted ==
    [][(loop' # loop /\ loop'.pc \in {"exec", "sleep"})
          => LET todo == IF loop.pc = "exec" THEN loop.todo ELSE order
                 ct == loop'.current_time
                 stops(i) == IsDue(tasks'[i], ct) \/ Faults(tasks'[i])
             IN  /\ loop'.pc = "sleep"
                       => \A k \in 1..Len(todo) : ~stops(todo[k])
                 /\ loop'.pc = "exec"
                       => \E k \in 1..Len(todo) :
                             /\ loop'.cur = todo[k]
                             /\ \A j \in 1..(k - 1) : ~stops(todo[j])
                             /\ loop'.todo = SubSeq(todo, k + 1, Len(todo))
                 /\ (LoopTick /\ is_running)
                       => /\ \A i \in Ids, p \in TaskPriority :
                                LoopScan([tasks EXCEPT ![i].priority = p],
                                         order, now).loop = loop'
                          /\ LoopScan([i \in Ids |->
                                          [tasks[i] EXCEPT
                                              !.priority = LOW + URGENT - @]],
                                      order, now).loop = loop']_vars

\* the loop has dispatched check_sensor_status, of priority HIGH, and task
\* "a", of priority URGENT and due in the same tick, is left for later in the
\* tick because it came into the registry later
C32_Witness ==
    /\ "a" \in Ids
    /\ loop.pc = "exec"
    /\ loop.cur = "check_sensor_status"
    /\ tasks[loop.cur].priority = HIGH
    /\ \E k \in 1..Len(loop.todo) : loop.todo[k] = "a"
    /\ tasks["a"].priority = URGENT
    /\ IsDue(tasks["a"], loop.current_time)
    /\ tasks["a"].last_run = None

----------------------------------------------------------------------------
(* Calls on an id that is not in the registry *)

\* C33: a call on an id that is not in the registry ends with a value and
\* changes nothing: cancel_task, pause_task, resume_task, reschedule_task and
\* force_run_task return False, get_task_status returns None, the registry and
\* task_handlers are as they were, and no handler is invoked.
C33_UnknownIdIsAValue ==
    [][(/\ last'.op \in {"cancel", "pause", "resume", "reschedule",
                         "force_run", "get_task_status"}
        /\ last'.id \notin Ids)
          => /\ IF last'.op = "get_task_status"
                THEN last'.val = <<None>>
                ELSE last'.ret = False
             /\ tasks' = tasks
             /\ order' = order
             /\ task_handlers' = task_handlers
             /\ forcing' = forcing
             /\ loop' = loop]_vars

\* a call on the id that is never scheduled has returned, in a registry that
\* holds the default tasks, while the loop awaits a handler
C33_Witness ==
    /\ last.id = UnknownId
    /\ last.op = "reschedule"
    /\ last.ret = False
    /\ UnknownId \notin Ids
    /\ Cardinality(Ids) >= 4
    /\ loop.pc = "exec"

----------------------------------------------------------------------------
(* A run that is cancelled *)

\* C34: when the cancellation reaches the executor while it awaits the
\* handler of a task, the record of the task gets the status CANCELLED and
\* nothing else: run_count, next_run and last_result (and every other field)
\* are as they were when the handler was awaited.
C34_CancelledRunOnlySetsStatus ==
    [][(loop.pc = "exec" /\ loop' # loop)
          => \A o \in AllOutcomes :
                (o.kind = "cancelled" /\ LoopExecEnd(o))
                   => /\ tasks'[loop.cur].status = CANCELLED
                      /\ tasks'[loop.cur].run_count = tasks[loop.cur].run_count
                      /\ tasks'[loop.cur].next_run = tasks[loop.cur].next_run
                      /\ tasks'[loop.cur].last_result
                           = tasks[loop.cur].last_result
                      /\ tasks'[loop.cur]
                           = [tasks[loop.cur] EXCEPT !.status = CANCELLED]]_vars

\* the shutdown was called while the loop awaited the handler of
\* check_sensor_status, in its first run, and the run has ended cancelled
C34_Witness ==
    /\ phase = "stopping"
    /\ calls = 1
    /\ ~cancelReq
    /\ tasks["check_sensor_status"].status = CANCELLED
    /\ tasks["check_sensor_status"].last_run # None
    /\ tasks["check_sensor_status"].run_count = 0
    /\ tasks["check_sensor_status"].last_result = "None"
    /\ "check_sensor_status" \notin DOMAIN cancelledAt
    /\ "check_sensor_status" \notin DOMAIN forcing

----------------------------------------------------------------------------
(* The interval 0 *)

\* C35: a task whose interval is set, 0 included, is recurring: a run of the
\* loop that gives a result and leaves run_count below max_runs (or the task
\* has no max_runs) leaves the task PENDING.  The code does not keep it for
\* the interval 0: line 195 tests the truth of interval_seconds, 0 is false,
\* and line 201 sets the task COMPLETED.
C35_IntervalZeroRecurs ==
    [][(loop.pc = "exec" /\ loop' # loop)
          => \A o \in OkOutcomes :
                (/\ LoopExecEnd(o)
                 /\ tasks[loop.cur].interval_seconds # None
                 /\ \/ tasks[loop.cur].max_runs = None
                    \/ tasks[loop.cur].run_count + 1 < tasks[loop.cur].max_runs)
                   => tasks'[loop.cur].status = PENDING]_vars

----------------------------------------------------------------------------
(* Progress *)

\* C36: a shutdown that was called returns, when every handler that is
\* awaited ends: the loop ends, at its sleep when the cancellation reaches it
\* there, or after the tick and the sleep that follows it when the
\* cancellation reached it in a handler, and shutdown then cancels the tasks
\* and is done.
C36_ShutdownReturns == (phase = "stopping") ~> (phase = "stopped")

\* the shutdown has returned after it was called while the loop awaited the
\* handler of check_sensor_status: the run ended cancelled, the loop slept to
\* the end of its wait and ended
C36_Witness ==
    /\ phase = "stopped"
    /\ loop.pc = "done"
    /\ calls = 1
    /\ now >= Sleep
    /\ "check_sensor_status" \in DOMAIN cancelledAt
    /\ cancelledAt["check_sensor_status"] = CANCELLED
    /\ tasks["check_sensor_status"].last_run # None
    /\ tasks["check_sensor_status"].run_count = 0
    /\ \A i \in Ids : tasks[i].status = CANCELLED

\* C37: while the scheduler runs and the handlers end, a task that is PENDING
\* and due when a tick is about to start is dispatched, unless it ceases to
\* be PENDING and due by other means or the shutdown is called.  The code
\* does not keep it: when the condition of line 69 raises at a task that
\* comes before it in the registry, the scan is left at that task (line 77),
\* in this tick and in every later one while that task is as it is.
C37_DueTaskDispatched ==
    (/\ phase = "running"
     /\ ~cancelReq
     /\ \/ loop.pc = "start"
        \/ loop.pc \in {"sleep", "backoff"} /\ now >= loop.wake_at
     /\ "a" \in Ids
     /\ IsDue(tasks["a"], now))
       ~> (\/ phase # "running"
           \/ "a" \notin Ids
           \/ ~IsDue(tasks["a"], now))

----------------------------------------------------------------------------
(* The list of a tick *)

====
